---- MODULE Spec2Model ----
(***************************************************************************)
(* SoundBound: the AudioPlayer / PlaylistManager pair, the progress and    *)
(* volume bars, and the StyleCustomizer with its local and remote          *)
(* preference stores, as state machines.                                   *)
(*                                                                         *)
(* Strings that the code inspects (file names, track names, search terms)  *)
(* are sequences of one-character strings, so that toLowerCase, includes,  *)
(* split and replace are computed and not assumed.  Indices into the       *)
(* playlist are 0-based as in the code; At(s, i) reads s[i].               *)
(***************************************************************************)
EXTENDS Integers, Sequences, FiniteSets, TLC

VARIABLES
  \* AudioPlayer fields (audio-player.js 3-15)
  isPlaying, currentTrackIndex, playerRef, volume, isMuted, isDragging,
  \* the DOM text of #trackTitle / #trackArtist
  trackTitle, trackArtist,
  \* the <audio> element: src, playback engine state, volume, position, duration
  audioSrc, audioState, audioVolume, audioCurrentTime, audioDuration,
  \* PlaylistManager fields (audio-player.js 425-434); heap holds the array
  \* objects that this.playlist of the manager and of the player refer to
  mgrRef, heap, filteredPlaylist, searchTerm,
  \* the browser: blob locators handed out and revoked, the clock, localStorage
  nextBlob, revoked, now, lsPlaylist, lsPrefs,
  \* StyleCustomizer.currentPreferences and the visual state applied to the document
  currentPreferences, applied,
  \* FirebaseService.currentUser, the remote user documents, requests in flight
  fbUser, remoteDoc, loadTasks, saveTasks, playlistSaves,
  \* the live onSnapshot listeners on user documents and the snapshots they are owed
  prefSubs, unsubscribePreferences, authObserver, snapPending,
  \* history: local storage holds the preferences of the latest savePreferences
  \* call, and no remote update and no change of user has followed that call
  roundTrip,
  \* AuthManager fields (auth-manager.js 5-7), the loading indicator, and the
  \* provider calls in flight
  authUser, isAuthModalOpen, loading, authCalls,
  \* history: the user last passed to each component's onUserChange
  delivered,
  \* PlaylistManager: the getPlaylist requests in flight; the remote playlist
  \* documents
  playlistLoads, remotePlaylist,
  \* SoundBoundApp (main.js): the components constructed, the loading indicator,
  \* the toast container, isInitialized, and whether initializeApp's promise
  \* was rejected with nobody handling it
  app,
  \* the progress display (#progressFill / #progressHandle, #currentTime) as
  \* updateProgress last wrote it
  progressShown,
  \* history: the handler that ran last, its arguments and what it found
  lastOp

playVars == <<isPlaying, currentTrackIndex, playerRef, trackTitle, trackArtist,
              audioSrc, audioState>>
listVars == <<mgrRef, heap, filteredPlaylist, searchTerm, nextBlob, revoked, now,
              lsPlaylist, playlistSaves>>
mediaVars == <<audioCurrentTime, audioDuration>>
barVars == <<volume, isMuted, isDragging, audioVolume>>
prefVars == <<currentPreferences, applied, lsPrefs, fbUser, remoteDoc, loadTasks,
              saveTasks, prefSubs, unsubscribePreferences, authObserver, snapPending, roundTrip>>
authVars == <<authUser, isAuthModalOpen, loading, authCalls, delivered, playlistLoads,
              remotePlaylist>>
vars == <<playVars, mediaVars, listVars, barVars, prefVars, authVars, app, progressShown,
         lastOp>>

----------------------------------------------------------------------------
\* Bounds of the model

\* longest playlist the add handlers are driven to
MaxTracks == 3
\* blob locators created in one run
MaxBlobs == 4
\* files in one selection
MaxBatch == 2
\* the bars' geometry (getBoundingClientRect): left edge and width, in pixels
BarLeft == 1
BarWidth == 2
\* how far left or right of a bar the pointer is taken during a drag
PointerSlack == 1
\* longest media duration, in seconds
MaxDuration == 2
\* remote reads, and remote writes, in flight at once
MaxTasks == 1
\* preference fields the user moves away from their defaults
MaxChanged == 1
\* milliseconds the clock read by Date.now() advances in one run
MaxClock == 2
\* sign-in, sign-up and sign-out requests awaiting the provider at once
MaxAuthCalls == 2

----------------------------------------------------------------------------
\* Strings

UpperToLower ==
  ("A" :> "a") @@ ("B" :> "b") @@ ("C" :> "c") @@ ("U" :> "u") @@ ("T" :> "t")

\* String.prototype.toLowerCase
toLowerCase(s) ==
  [i \in 1..Len(s) |-> IF s[i] \in DOMAIN UpperToLower THEN UpperToLower[s[i]] ELSE s[i]]

\* String.prototype.includes
includes(s, sub) ==
  \E i \in 0..(Len(s) - Len(sub)) : SubSeq(s, i + 1, i + Len(sub)) = sub

\* String.prototype.indexOf (0-based, -1 when absent)
indexOf(s, sub) ==
  IF includes(s, sub)
  THEN CHOOSE i \in 0..(Len(s) - Len(sub)) :
         /\ SubSeq(s, i + 1, i + Len(sub)) = sub
         /\ \A j \in 0..(i - 1) : SubSeq(s, j + 1, j + Len(sub)) # sub
  ELSE -1

\* name.replace(/\.[^/.]+$/, ''): drops a final ".ext" whose ext is non-empty
\* and holds no "/" (it holds no "." since the match starts at the last one)
StripExtension(s) ==
  LET dots == {i \in 1..Len(s) : s[i] = "."} IN
  IF dots = {} THEN s
  ELSE LET p == CHOOSE i \in dots : \A j \in dots : j <= i IN
       IF p < Len(s) /\ \A j \in (p + 1)..Len(s) : s[j] # "/"
       THEN SubSeq(s, 1, p - 1)
       ELSE s

\* name.replace(/_/g, ' ')
ReplaceUnderscores(s) == [i \in 1..Len(s) |-> IF s[i] = "_" THEN " " ELSE s[i]]

\* name.replace(/\s+/g, ' ')
RECURSIVE CollapseSpaces(_)
CollapseSpaces(s) ==
  IF Len(s) <= 1 THEN s
  ELSE IF s[1] = " " /\ s[2] = " " THEN CollapseSpaces(Tail(s))
  ELSE <<s[1]>> \o CollapseSpaces(Tail(s))

\* String.prototype.trim
RECURSIVE Trim(_)
Trim(s) ==
  IF s = <<>> THEN s
  ELSE IF s[1] = " " THEN Trim(Tail(s))
  ELSE IF s[Len(s)] = " " THEN Trim(SubSeq(s, 1, Len(s) - 1))
  ELSE s

CleanName(s) == Trim(CollapseSpaces(ReplaceUnderscores(s)))

Separator == <<" ", "-", " ">>
UnknownTrack == <<"U", "n", "k", "n", "o", "w", "n", " ", "T", "r", "a", "c", "k">>
UnknownArtist == <<"U", "n", "k", "n", "o", "w", "n", " ", "A", "r", "t", "i", "s", "t">>
NoTrackSelected ==
  <<"N", "o", " ", "t", "r", "a", "c", "k", " ", "s", "e", "l", "e", "c", "t", "e", "d">>
SelectASong ==
  <<"S", "e", "l", "e", "c", "t", " ", "a", " ", "s", "o", "n", "g", " ", "t", "o", " ",
    "p", "l", "a", "y">>

\* PlaylistManager.extractTrackName
extractTrackName(filename) ==
  LET name == StripExtension(filename)
      rest == IF includes(name, Separator)
              THEN SubSeq(name, indexOf(name, Separator) + Len(Separator) + 1, Len(name))
              ELSE name
      clean == CleanName(rest)
  IN IF clean = <<>> THEN UnknownTrack ELSE clean

\* PlaylistManager.extractArtistName
extractArtistName(filename) ==
  LET name == StripExtension(filename) IN
  IF includes(name, Separator)
  THEN CleanName(SubSeq(name, 1, indexOf(name, Separator)))
  ELSE UnknownArtist

----------------------------------------------------------------------------
\* Files, tracks and the playlist arrays

\* The files a user picks: a name and a MIME type major/minor
Files ==
  { [name |-> <<"A", "b", " ", "-", " ", "B", "a", ".", "m", "p", "3">>,
     major |-> "audio", minor |-> "mpeg"],
    [name |-> <<"c", "_", "a", ".", "w", "a", "v">>,
     major |-> "audio", minor |-> "wav"],
    [name |-> <<"x", ".", "p", "n", "g">>,
     major |-> "image", minor |-> "png"] }

\* file.type.startsWith('audio/')
IsAudio(file) == file.major = "audio"

\* the audio element's src when nothing is loaded ('' in the code)
EmptySrc == 0

\* the audio element's src after `this.audio.src = ''`: the attribute is present
\* and empty, and the getter answers the address of the document, a non-empty
\* string that is no media
ClearedSrc == 0 - 1

\* the two array objects alive at any time: the manager's and the player's
MgrArray == "m"
PlayerArray == "p"

At(s, i) == s[i + 1]
HasIndex(s, i) == i \in 0..(Len(s) - 1)

\* Array.prototype.splice(index, 1)
splice(s, index) ==
  IF HasIndex(s, index)
  THEN SubSeq(s, 1, index) \o SubSeq(s, index + 2, Len(s))
  ELSE s

MgrPlaylist == heap[mgrRef]
PlayerPlaylist == heap[playerRef]

\* firebaseService.currentUser when nobody is signed in (null)
NoUser == "none"

\* the record a handler leaves in lastOp
Op(name, index, outcome, toast) ==
  [name |-> name, index |-> index, outcome |-> outcome, toast |-> toast]

NoToast == "none"

----------------------------------------------------------------------------
\* AudioPlayer

\* the player fields and the audio element that the playback methods touch
PlayerState ==
  [isPlaying |-> isPlaying, idx |-> currentTrackIndex, src |-> audioSrc,
   st |-> audioState, title |-> trackTitle, artist |-> trackArtist,
   time |-> audioCurrentTime, dur |-> audioDuration]

SetPlayer(s) ==
  /\ isPlaying' = s.isPlaying
  /\ currentTrackIndex' = s.idx
  /\ audioSrc' = s.src
  /\ audioState' = s.st
  /\ trackTitle' = s.title
  /\ trackArtist' = s.artist
  /\ audioCurrentTime' = s.time
  /\ audioDuration' = s.dur

\* audio.duration before the metadata of the media is known (NaN)
NaNDuration == [finite |-> FALSE, secs |-> 0]

\* audio.src = url: the element reloads, which stops playback, aborts a pending
\* play request and resets the position and the duration
setSrc(s, url) ==
  [s EXCEPT !.src = url, !.st = "idle", !.time = 0, !.dur = NaNDuration]

\* AudioPlayer.pause: audio.pause() stops the engine and rejects a pending play
\* request; isPlaying = false
pause(s) == [s EXCEPT !.st = "idle", !.isPlaying = FALSE]

\* AudioPlayer.play up to its await: audio.play() is requested; isPlaying is set
\* when the request resolves (PlayResolved)
play(s) == [s EXCEPT !.st = "requested"]

\* AudioPlayer.updateTrackInfo
updateTrackInfo(s, name, artist) ==
  [s EXCEPT !.title = IF name = <<>> THEN UnknownTrack ELSE name,
            !.artist = IF artist = <<>> THEN UnknownArtist ELSE artist]

\* faulty variant of loadTrack: playback is started whether or not the player
\* was playing
loadTrackAlwaysPlays(s, pl, index) ==
  IF ~HasIndex(pl, index) THEN s
  ELSE LET track == At(pl, index)
           s1 == [setSrc(s, track.url) EXCEPT !.idx = index]
       IN play(updateTrackInfo(s1, track.name, track.artist))

\* AudioPlayer.loadTrack
loadTrack(s, pl, index) ==
  IF ~HasIndex(pl, index) THEN s
  ELSE LET track == At(pl, index)
           s1 == [setSrc(s, track.url) EXCEPT !.idx = index]
           s2 == updateTrackInfo(s1, track.name, track.artist)
       IN IF s2.isPlaying THEN play(s2) ELSE s2

\* the index previousTrack moves to
PrevIndex(cur, len) == IF cur > 0 THEN cur - 1 ELSE len - 1

\* faulty variant of NextIndex: no wrap at the end of the playlist
NextIndexNoWrap(cur, len) == cur + 1

\* the index nextTrack moves to
NextIndex(cur, len) == IF cur < len - 1 THEN cur + 1 ELSE 0

\* AudioPlayer.previousTrack
previousTrack(s, pl) ==
  IF Len(pl) = 0 THEN s
  ELSE LET i == PrevIndex(s.idx, Len(pl)) IN loadTrack([s EXCEPT !.idx = i], pl, i)

\* AudioPlayer.nextTrack
nextTrack(s, pl) ==
  IF Len(pl) = 0 THEN s
  ELSE LET i == NextIndex(s.idx, Len(pl)) IN loadTrack([s EXCEPT !.idx = i], pl, i)

\* AudioPlayer.setPlaylist, the part after this.playlist = playlist
setPlaylist(s, pl) ==
  IF Len(pl) > 0 /\ s.src = EmptySrc THEN loadTrack(s, pl, 0) ELSE s

\* faulty variant of removeFromPlaylist: the current track is not paused
RemoveCurrentKeepsPlaying(s, index) ==
  IF index = s.idx
  THEN updateTrackInfo(setSrc(s, ClearedSrc), NoTrackSelected, SelectASong)
  ELSE IF index < s.idx THEN [s EXCEPT !.idx = @ - 1]
  ELSE s

\* faulty variant of removeFromPlaylist: the index is not shifted
RemoveWithoutShift(s, index) ==
  IF index = s.idx
  THEN updateTrackInfo(setSrc(pause(s), ClearedSrc), NoTrackSelected, SelectASong)
  ELSE s

\* AudioPlayer.removeFromPlaylist, the part before this.playlist.splice
removeFromPlaylist(s, index) ==
  IF index = s.idx
  THEN updateTrackInfo(setSrc(pause(s), ClearedSrc), NoTrackSelected, SelectASong)
  ELSE IF index < s.idx THEN [s EXCEPT !.idx = @ - 1]
  ELSE s

\* what a navigation finds: an empty playlist, a current index outside the
\* playlist, the index `edge` from which it wraps, or any other index
NavOutcome(edge) ==
  IF Len(PlayerPlaylist) = 0 THEN "empty"
  ELSE IF ~HasIndex(PlayerPlaylist, currentTrackIndex) THEN "outside"
  ELSE IF currentTrackIndex = edge THEN "wrap"
  ELSE "step"

\* click on #playBtn, or Space
TogglePlay ==
  /\ IF audioSrc = EmptySrc
     THEN /\ UNCHANGED <<playVars, mediaVars>>
          /\ lastOp' = Op("togglePlay", 0, "nosrc", "No track selected")
     ELSE /\ SetPlayer(IF isPlaying THEN pause(PlayerState) ELSE play(PlayerState))
          /\ UNCHANGED playerRef
          /\ lastOp' = Op("togglePlay", 0, IF isPlaying THEN "pause" ELSE "play", NoToast)
  /\ UNCHANGED <<listVars, barVars, prefVars, authVars, app, progressShown>>

\* the promise of audio.play() resolves: play() continues after its await
PlayResolved ==
  /\ audioState = "requested"
  /\ audioSrc # ClearedSrc
  /\ SetPlayer([PlayerState EXCEPT !.st = "playing", !.isPlaying = TRUE])
  /\ lastOp' = Op("playResolved", 0, "none", NoToast)
  /\ UNCHANGED <<playerRef, listVars, barVars, prefVars, authVars, app, progressShown>>

\* the promise of audio.play() rejects: the catch of play() shows a toast
PlayRejected ==
  /\ audioState = "requested"
  /\ SetPlayer([PlayerState EXCEPT !.st = "idle"])
  /\ lastOp' = Op("playRejected", 0, "none", "Unable to play audio")
  /\ UNCHANGED <<playerRef, listVars, barVars, prefVars, authVars, app, progressShown>>

\* the audio element's 'error' event (the source cannot be loaded or decoded):
\* handleAudioError shows a toast and pauses
AudioError ==
  /\ audioSrc # EmptySrc
  /\ SetPlayer(pause(PlayerState))
  /\ lastOp' = Op("audioError", 0, IF isPlaying THEN "wasPlaying" ELSE "none",
                  "Error loading audio file")
  /\ UNCHANGED <<playerRef, listVars, barVars, prefVars, authVars, app, progressShown>>

\* click on #prevBtn, or ArrowLeft
PreviousTrack ==
  /\ SetPlayer(previousTrack(PlayerState, PlayerPlaylist))
  /\ lastOp' = Op("previousTrack", 0, NavOutcome(0), NoToast)
  /\ UNCHANGED <<playerRef, listVars, barVars, prefVars, authVars, app, progressShown>>

\* click on #nextBtn, or ArrowRight
NextTrack ==
  /\ SetPlayer(nextTrack(PlayerState, PlayerPlaylist))
  /\ lastOp' = Op("nextTrack", 0, NavOutcome(Len(PlayerPlaylist) - 1), NoToast)
  /\ UNCHANGED <<playerRef, listVars, barVars, prefVars, authVars, app, progressShown>>

\* the audio element's 'ended' event: the engine has stopped at the end of the
\* media, and the listener calls nextTrack
TrackEnded ==
  /\ audioState = "playing"
  /\ SetPlayer(nextTrack([PlayerState EXCEPT !.st = "idle"], PlayerPlaylist))
  /\ lastOp' = Op("ended", 0, NavOutcome(Len(PlayerPlaylist) - 1), NoToast)
  /\ UNCHANGED <<playerRef, listVars, barVars, prefVars, authVars, app, progressShown>>

----------------------------------------------------------------------------
\* PlaylistManager

\* faulty variant of UpdateFiltered: the artist is not searched
UpdateFilteredNoArtist(pl, term) ==
  IF term = <<>> THEN pl
  ELSE SelectSeq(pl, LAMBDA track : includes(toLowerCase(track.name), term))

\* PlaylistManager.updateFilteredPlaylist: the value it gives filteredPlaylist
UpdateFiltered(pl, term) ==
  IF term = <<>> THEN pl
  ELSE SelectSeq(pl, LAMBDA track :
         \/ includes(toLowerCase(track.name), term)
         \/ includes(toLowerCase(track.artist), term))

\* faulty variant of Snapshot: the source locator is stored too
SnapshotWithUrl(pl) ==
  [i \in 1..Len(pl) |->
     [id |-> pl[i].id, name |-> pl[i].name, artist |-> pl[i].artist,
      duration |-> pl[i].duration, url |-> pl[i].url]]

\* the metadata-only copy that savePlaylist writes
Snapshot(pl) ==
  [i \in 1..Len(pl) |->
     [id |-> pl[i].id, name |-> pl[i].name, artist |-> pl[i].artist,
      duration |-> pl[i].duration]]

\* PlaylistManager.savePlaylist: the remote writes in flight after it
SavePlaylistRemote(pl) ==
  IF fbUser # NoUser
  THEN playlistSaves \cup {[uid |-> fbUser, songs |-> Snapshot(pl)]}
  ELSE playlistSaves

\* the tracks addFilesToPlaylist builds for the audio files of a selection
NewTracks(audioFiles) ==
  [i \in 1..Len(audioFiles) |->
     [id |-> now + (i - 1),
      name |-> extractTrackName(audioFiles[i].name),
      artist |-> extractArtistName(audioFiles[i].name),
      url |-> nextBlob + i,
      duration |-> 0,
      file |-> audioFiles[i].name]]

\* PlaylistManager.addFilesToPlaylist, called by the handler `name`
addFilesToPlaylist(name, audioFiles) ==
  LET newTracks == NewTracks(audioFiles)
      heap1 == [heap EXCEPT ![mgrRef] = @ \o newTracks]
  IN /\ Len(MgrPlaylist) + Len(audioFiles) <= MaxTracks
     /\ nextBlob + Len(audioFiles) <= MaxBlobs
     /\ heap' = heap1
     /\ nextBlob' = nextBlob + Len(audioFiles)
     /\ filteredPlaylist' = UpdateFiltered(heap1[mgrRef], searchTerm)
     /\ playerRef' = mgrRef
     /\ SetPlayer(setPlaylist(PlayerState, heap1[mgrRef]))
     /\ lsPlaylist' = <<Snapshot(heap1[mgrRef])>>
     /\ playlistSaves' = SavePlaylistRemote(heap1[mgrRef])
     /\ Cardinality(playlistSaves') <= MaxTasks
     /\ lastOp' = Op(name, Len(audioFiles),
                     IF audioSrc = EmptySrc THEN "loaded" ELSE "appended",
                     "Added song(s) to playlist")
     /\ UNCHANGED <<mgrRef, searchTerm, revoked, now, barVars, prefVars, authVars, app, progressShown>>

\* a millisecond passes: the next Date.now() of addFilesToPlaylist is one larger
Tick ==
  /\ now < MaxClock
  /\ now' = now + 1
  /\ lastOp' = Op("tick", now + 1, "none", NoToast)
  /\ UNCHANGED <<playVars, mediaVars, mgrRef, heap, filteredPlaylist, searchTerm, nextBlob,
                 revoked, lsPlaylist, playlistSaves, barVars, prefVars, authVars, app,
                 progressShown>>

\* PlaylistManager.handleFileSelection
HandleFileSelection(files) ==
  LET audioFiles == SelectSeq(files, IsAudio) IN
  IF audioFiles = <<>>
  THEN /\ lastOp' = Op("handleFileSelection", 0, "rejected", "Please select valid audio files")
       /\ UNCHANGED <<playVars, mediaVars, listVars, barVars, prefVars, authVars, app, progressShown>>
  ELSE addFilesToPlaylist("handleFileSelection", audioFiles)

\* the drop handler of setupDragAndDrop: the audio files among the dropped ones
\* go to addFilesToPlaylist
HandleDrop(files) ==
  LET audioFiles == SelectSeq(files, IsAudio) IN
  IF audioFiles = <<>>
  THEN /\ lastOp' = Op("drop", 0, "rejected", "Please drop valid audio files")
       /\ UNCHANGED <<playVars, mediaVars, listVars, barVars, prefVars, authVars, app, progressShown>>
  ELSE addFilesToPlaylist("drop", audioFiles)

\* input on #searchInput
HandleSearch(q) ==
  /\ searchTerm' = toLowerCase(q)
  /\ filteredPlaylist' = UpdateFiltered(MgrPlaylist, toLowerCase(q))
  /\ lastOp' = Op("handleSearch", q, "none", NoToast)
  /\ UNCHANGED <<playVars, mediaVars, mgrRef, heap, nextBlob, revoked, now, lsPlaylist,
                 playlistSaves, barVars, prefVars, authVars, app, progressShown>>

\* the indices the rendered playlist offers: those of the filtered tracks
Rendered ==
  {i \in 0..(Len(MgrPlaylist) - 1) :
     \E k \in 1..Len(filteredPlaylist) : filteredPlaylist[k] = At(MgrPlaylist, i)}

\* click on a rendered playlist item
SelectTrack(index) ==
  /\ index \in Rendered
  /\ SetPlayer(loadTrack([PlayerState EXCEPT !.idx = index], PlayerPlaylist, index))
  /\ lastOp' = Op("selectTrack", index, "none", NoToast)
  /\ UNCHANGED <<playerRef, listVars, barVars, prefVars, authVars, app, progressShown>>

\* PlaylistManager.removeTrack
RemoveTrack(index) ==
  IF ~HasIndex(MgrPlaylist, index)
  THEN /\ lastOp' = Op("removeTrack", index, "invalid", NoToast)
       /\ UNCHANGED <<playVars, mediaVars, listVars, barVars, prefVars, authVars, app, progressShown>>
  ELSE LET track == At(MgrPlaylist, index)
           heap1 == [heap EXCEPT ![playerRef] = splice(@, index)]
           heap2 == [heap1 EXCEPT ![mgrRef] = splice(@, index)]
       IN /\ revoked' = revoked \cup {track.url}
          /\ SetPlayer(removeFromPlaylist(PlayerState, index))
          /\ heap' = heap2
          /\ filteredPlaylist' = UpdateFiltered(heap2[mgrRef], searchTerm)
          /\ lsPlaylist' = <<Snapshot(heap2[mgrRef])>>
          /\ playlistSaves' = SavePlaylistRemote(heap2[mgrRef])
          /\ Cardinality(playlistSaves') <= MaxTasks
          /\ lastOp' = Op("removeTrack", index,
                       IF index = currentTrackIndex
                       THEN (IF isPlaying THEN "currentPlaying" ELSE "current")
                       ELSE IF index < currentTrackIndex THEN "before" ELSE "after",
                       "Song removed from playlist")
          /\ UNCHANGED <<playerRef, mgrRef, searchTerm, nextBlob, now, barVars, prefVars, authVars, app, progressShown>>

\* PlaylistManager.clearPlaylist: the manager and the player each get a new
\* empty array
ClearPlaylist ==
  /\ revoked' = revoked \cup {MgrPlaylist[i].url : i \in 1..Len(MgrPlaylist)}
  /\ mgrRef' = MgrArray
  /\ playerRef' = PlayerArray
  /\ heap' = (MgrArray :> <<>>) @@ (PlayerArray :> <<>>)
  /\ filteredPlaylist' = <<>>
  /\ SetPlayer(setPlaylist(PlayerState, <<>>))
  /\ lsPlaylist' = <<Snapshot(<<>>)>>
  /\ playlistSaves' = SavePlaylistRemote(<<>>)
  /\ Cardinality(playlistSaves') <= MaxTasks
  /\ lastOp' = Op("clearPlaylist", 0, "none", "Playlist cleared")
  /\ UNCHANGED <<searchTerm, nextBlob, now, barVars, prefVars, authVars, app, progressShown>>

\* the array cell the player does not refer to, free for a new array
FreshArray == IF playerRef = MgrArray THEN PlayerArray ELSE MgrArray

\* PlaylistManager.destroy: every locator of the playlist is revoked and the
\* manager gets a new empty array; the player keeps the array it refers to
Destroy ==
  /\ revoked' = revoked \cup {MgrPlaylist[i].url : i \in 1..Len(MgrPlaylist)}
  /\ mgrRef' = FreshArray
  /\ heap' = [heap EXCEPT ![FreshArray] = <<>>]
  /\ filteredPlaylist' = <<>>
  /\ lastOp' = Op("destroy", 0, "none", NoToast)
  /\ UNCHANGED <<playVars, mediaVars, searchTerm, nextBlob, now, lsPlaylist, playlistSaves,
                 barVars, prefVars, authVars, app, progressShown>>

----------------------------------------------------------------------------
\* Progress and volume bars
\*
\* Positions are kept exactly, as numerators over BarWidth: audioCurrentTime = n
\* stands for n / BarWidth seconds.  Volumes are numerators over VolumeOne, so
\* that a pointer fraction k / BarWidth and a step of 0.1 are both whole numbers.

\* the volume 1.0
VolumeOne == 10 * BarWidth
\* this.volume = 0.7 in the constructor
InitialVolume == 7 * BarWidth
\* the 0.1 of adjustVolume(0.1) / adjustVolume(-0.1)
VolumeStep == BarWidth

\* pointer positions: on a bar (click, mousedown) and anywhere (mousemove)
OnBar == BarLeft..(BarLeft + BarWidth)
Anywhere == (BarLeft - PointerSlack)..(BarLeft + BarWidth + PointerSlack)

Max(a, b) == IF a >= b THEN a ELSE b
Min(a, b) == IF a <= b THEN a ELSE b

\* AudioPlayer.seekTo: the value it assigns to audio.currentTime, over BarWidth.
\* percent = (clientX - rect.left) / rect.width; newTime = percent * duration
SeekTime(clientX, duration) == (clientX - BarLeft) * duration

\* AudioPlayer.seekTo
seekTo(clientX) ==
  IF audioDuration.finite
  THEN audioCurrentTime' = SeekTime(clientX, audioDuration.secs)
  ELSE UNCHANGED audioCurrentTime

\* faulty variant of VolumePercent: no clamp
VolumePercentUnclamped(clientX) == (clientX - BarLeft) * 10

\* AudioPlayer.setVolume: Math.max(0, Math.min(1, (clientX - rect.left) / rect.width))
VolumePercent(clientX) == Max(0, Min(VolumeOne, (clientX - BarLeft) * 10))

\* AudioPlayer.setVolume
setVolume(clientX) ==
  /\ volume' = VolumePercent(clientX)
  /\ audioVolume' = VolumePercent(clientX)
  /\ isMuted' = FALSE

\* Math.max(0, Math.min(1, v)) of adjustVolume and setVolumeLevel
ClampVolume(v) == Max(0, Min(VolumeOne, v))

BarOp(name, x) == Op(name, x, "none", NoToast)

\* click on #progressBar
ClickProgress(x) ==
  /\ seekTo(x)
  /\ lastOp' = BarOp("seekTo", x)
  /\ UNCHANGED <<volume, isMuted, isDragging, audioVolume, audioDuration,
                 playVars, listVars, prefVars, authVars, app, progressShown>>

\* click on #volumeBar
ClickVolume(x) ==
  /\ setVolume(x)
  /\ lastOp' = BarOp("setVolume", x)
  /\ UNCHANGED <<isDragging, audioCurrentTime, audioDuration, playVars, listVars, prefVars, authVars, app, progressShown>>

\* mousedown on #progressBar: startDragging(e, 'progress') with handleDragging
StartDraggingProgress(x) ==
  /\ isDragging' = "progress"
  /\ seekTo(x)
  /\ lastOp' = BarOp("dragProgress", x)
  /\ UNCHANGED <<volume, isMuted, audioVolume, audioDuration, playVars, listVars, prefVars, authVars, app, progressShown>>

\* mousedown on #volumeBar: startDragging(e, 'volume') with handleDragging
StartDraggingVolume(x) ==
  /\ isDragging' = "volume"
  /\ setVolume(x)
  /\ lastOp' = BarOp("dragVolume", x)
  /\ UNCHANGED <<audioCurrentTime, audioDuration, playVars, listVars, prefVars, authVars, app, progressShown>>

\* faulty variant of HandleDragging: a mousemove acts without a drag mode
HandleDraggingAlways(x) ==
  /\ IF isDragging = "volume"
     THEN /\ setVolume(x)
          /\ lastOp' = BarOp("dragVolume", x)
          /\ UNCHANGED audioCurrentTime
     ELSE /\ seekTo(x)
          /\ lastOp' = BarOp(IF isDragging = "false" THEN "mousemove" ELSE "dragProgress", x)
          /\ UNCHANGED <<volume, isMuted, audioVolume>>
  /\ UNCHANGED <<isDragging, audioDuration, playVars, listVars, prefVars, authVars, app, progressShown>>

\* mousemove on the document: handleDragging
HandleDragging(x) ==
  /\ IF isDragging = "false"
     THEN /\ lastOp' = BarOp("mousemove", x)
          /\ UNCHANGED <<volume, isMuted, audioVolume, audioCurrentTime>>
     ELSE IF isDragging = "progress"
     THEN /\ seekTo(x)
          /\ lastOp' = BarOp("dragProgress", x)
          /\ UNCHANGED <<volume, isMuted, audioVolume>>
     ELSE /\ setVolume(x)
          /\ lastOp' = BarOp("dragVolume", x)
          /\ UNCHANGED audioCurrentTime
  /\ UNCHANGED <<isDragging, audioDuration, playVars, listVars, prefVars, authVars, app, progressShown>>

\* mouseup on the document: stopDragging
StopDragging ==
  /\ isDragging' = "false"
  /\ lastOp' = BarOp("stopDragging", 0)
  /\ UNCHANGED <<volume, isMuted, audioVolume, audioCurrentTime, audioDuration,
                 playVars, listVars, prefVars, authVars, app, progressShown>>

\* the audio element's 'timeupdate' event: the position has moved on by
\* `advance` (0 after a seek), and updateProgress redraws unless a drag is on
TimeUpdate(advance) ==
  /\ audioSrc \notin {EmptySrc, ClearedSrc}
  /\ advance > 0 =>
       /\ audioState = "playing"
       /\ audioDuration.finite
       /\ audioCurrentTime + advance <= audioDuration.secs * BarWidth
  /\ audioCurrentTime' = audioCurrentTime + advance
  /\ progressShown' =
       IF isDragging # "false" THEN progressShown
       ELSE [fill |-> IF audioDuration.finite /\ audioDuration.secs # 0
                      THEN <<audioCurrentTime', audioDuration.secs>>
                      ELSE progressShown.fill,
             time |-> <<audioCurrentTime'>>]
  /\ lastOp' = BarOp("timeupdate", advance)
  /\ UNCHANGED <<volume, isMuted, isDragging, audioVolume, audioDuration,
                 playVars, listVars, prefVars, authVars, app>>

\* ArrowUp / ArrowDown: adjustVolume(0.1) / adjustVolume(-0.1)
AdjustVolume(delta) ==
  /\ volume' = ClampVolume(volume + delta)
  /\ audioVolume' = ClampVolume(volume + delta)
  /\ isMuted' = FALSE
  /\ lastOp' = BarOp("adjustVolume", delta)
  /\ UNCHANGED <<isDragging, audioCurrentTime, audioDuration, playVars, listVars, prefVars, authVars, app, progressShown>>

\* AudioPlayer.setVolumeLevel
SetVolumeLevel(v) ==
  /\ volume' = ClampVolume(v)
  /\ audioVolume' = ClampVolume(v)
  /\ isMuted' = FALSE
  /\ lastOp' = BarOp("setVolumeLevel", v)
  /\ UNCHANGED <<isDragging, audioCurrentTime, audioDuration, playVars, listVars, prefVars, authVars, app, progressShown>>

\* click on #volumeBtn, or KeyM
ToggleMute ==
  /\ IF isMuted
     THEN audioVolume' = volume /\ isMuted' = FALSE
     ELSE audioVolume' = 0 /\ isMuted' = TRUE
  /\ lastOp' = BarOp("toggleMute", 0)
  /\ UNCHANGED <<volume, isDragging, audioCurrentTime, audioDuration,
                 playVars, listVars, prefVars, authVars, app, progressShown>>

\* the audio element learns the duration of the loaded media (loadedmetadata)
LoadedMetadata(d) ==
  /\ audioSrc \notin {EmptySrc, ClearedSrc}
  /\ audioDuration' = [finite |-> TRUE, secs |-> d]
  /\ lastOp' = BarOp("loadedmetadata", d)
  /\ UNCHANGED <<volume, isMuted, isDragging, audioVolume, audioCurrentTime,
                 playVars, listVars, prefVars, authVars, app, progressShown>>

----------------------------------------------------------------------------
\* StyleCustomizer, local storage and the remote user documents

Users == {"u1"}

\* the accounts the auth provider knows: the users above and one whose user
\* document was never written
Accounts == Users \cup {"u2"}

\* the values the customization panel offers
Themes == {"default", "dark"}
Sizes == {"normal", "large"}
Backgrounds == {"solid", "gradient"}
FontSizes == {16, 18}
AnimationSpeeds == {1, 2}

\* StyleCustomizer.getDefaultPreferences
getDefaultPreferences ==
  [theme |-> "default", playerSize |-> "normal", background |-> "solid",
   fontSize |-> 16, animationSpeed |-> 1]

\* FirebaseService.getDefaultPreferences (volume: 0.7, kept in tenths)
serviceDefaultPreferences ==
  [theme |-> "default", playerSize |-> "normal", background |-> "solid",
   fontSize |-> 16, animationSpeed |-> 1, volume |-> 7]

\* { ...a, ...b }
Spread(a, b) ==
  [k \in (DOMAIN a) \cup (DOMAIN b) |-> IF k \in DOMAIN b THEN b[k] ELSE a[k]]

\* the order in which the keys of a preferences object are written
KeyOrder == <<"theme", "playerSize", "background", "fontSize", "animationSpeed", "volume">>

\* JSON.stringify of a preferences object: its key/value pairs in key order
JSONStringify(p) ==
  LET keys == SelectSeq(KeyOrder, LAMBDA k : k \in DOMAIN p)
  IN [i \in 1..Len(keys) |-> <<keys[i], p[keys[i]]>>]

\* JSON.parse of such a text
JSONParse(text) ==
  [k \in {text[i][1] : i \in 1..Len(text)} |->
     text[CHOOSE i \in 1..Len(text) : text[i][1] = k][2]]

\* the sizeMultipliers table of applySize, in tenths
sizeMultipliers == ("compact" :> 8) @@ ("normal" :> 10) @@ ("large" :> 12)

\* StyleCustomizer.applyAllPreferences: the document's visual state afterwards
applyAllPreferences(p) ==
  [theme |-> p.theme, playerSize |-> p.playerSize,
   playerScale |-> sizeMultipliers[p.playerSize], background |-> p.background,
   fontSize |-> p.fontSize, animationSpeed |-> p.animationSpeed]

\* the document before any preference was applied
Unstyled ==
  [theme |-> "unset", playerSize |-> "unset", playerScale |-> 0, background |-> "unset",
   fontSize |-> 0, animationSpeed |-> 0]

PrefOp(name, index, outcome, toast) == Op(name, index, outcome, toast)

prefStore == <<lsPrefs, fbUser, remoteDoc, loadTasks, saveTasks, prefSubs,
              unsubscribePreferences, authObserver, snapPending,
               roundTrip>>
nonPrefVars == <<playVars, mediaVars, listVars, barVars, authVars, app, progressShown>>

\* the fields of p that differ from the compiled-in defaults
Changed(p) == {k \in DOMAIN getDefaultPreferences : p[k] # getDefaultPreferences[k]}

\* faulty variant of SelectTheme: the choice is also written to local storage
SelectThemeAndStore(theme) ==
  /\ currentPreferences' = [currentPreferences EXCEPT !.theme = theme]
  /\ Cardinality(Changed(currentPreferences')) <= MaxChanged
  /\ applied' = [applied EXCEPT !.theme = theme]
  /\ lsPrefs' = <<JSONStringify(currentPreferences')>>
  /\ lastOp' = PrefOp("selectTheme", 0, "none", NoToast)
  /\ UNCHANGED <<fbUser, remoteDoc, loadTasks, saveTasks, prefSubs, unsubscribePreferences,
                 authObserver, snapPending, roundTrip,
                 nonPrefVars>>

\* click on a .theme-option
SelectTheme(theme) ==
  /\ currentPreferences' = [currentPreferences EXCEPT !.theme = theme]
  /\ Cardinality(Changed(currentPreferences')) <= MaxChanged
  /\ applied' = [applied EXCEPT !.theme = theme]
  /\ lastOp' = PrefOp("selectTheme", 0, "none", NoToast)
  /\ UNCHANGED <<prefStore, nonPrefVars>>

\* change of a playerSize radio button
SelectSize(size) ==
  /\ currentPreferences' = [currentPreferences EXCEPT !.playerSize = size]
  /\ Cardinality(Changed(currentPreferences')) <= MaxChanged
  /\ applied' = [applied EXCEPT !.playerSize = size, !.playerScale = sizeMultipliers[size]]
  /\ lastOp' = PrefOp("selectSize", 0, "none", NoToast)
  /\ UNCHANGED <<prefStore, nonPrefVars>>

\* change of a background radio button
SelectBackground(background) ==
  /\ currentPreferences' = [currentPreferences EXCEPT !.background = background]
  /\ Cardinality(Changed(currentPreferences')) <= MaxChanged
  /\ applied' = [applied EXCEPT !.background = background]
  /\ lastOp' = PrefOp("selectBackground", 0, "none", NoToast)
  /\ UNCHANGED <<prefStore, nonPrefVars>>

\* input on #fontSizeSlider
UpdateFontSize(fontSize) ==
  /\ currentPreferences' = [currentPreferences EXCEPT !.fontSize = fontSize]
  /\ Cardinality(Changed(currentPreferences')) <= MaxChanged
  /\ applied' = [applied EXCEPT !.fontSize = fontSize]
  /\ lastOp' = PrefOp("updateFontSize", 0, "none", NoToast)
  /\ UNCHANGED <<prefStore, nonPrefVars>>

\* input on #animationSpeedSlider
UpdateAnimationSpeed(speed) ==
  /\ currentPreferences' = [currentPreferences EXCEPT !.animationSpeed = speed]
  /\ Cardinality(Changed(currentPreferences')) <= MaxChanged
  /\ applied' = [applied EXCEPT !.animationSpeed = speed]
  /\ lastOp' = PrefOp("updateAnimationSpeed", 0, "none", NoToast)
  /\ UNCHANGED <<prefStore, nonPrefVars>>

\* faulty variant of ResetToDefault: the defaults are merged over the current
\* preferences, so a field the defaults do not name survives
ResetMergesDefaults ==
  /\ currentPreferences' = Spread(currentPreferences, getDefaultPreferences)
  /\ applied' = applyAllPreferences(getDefaultPreferences)
  /\ lastOp' = PrefOp("resetToDefault", 0, "none", "Reset to default settings")
  /\ UNCHANGED <<prefStore, nonPrefVars>>

\* click on #resetStyleBtn
ResetToDefault ==
  /\ currentPreferences' = getDefaultPreferences
  /\ applied' = applyAllPreferences(getDefaultPreferences)
  /\ lastOp' = PrefOp("resetToDefault", 0, "none", "Reset to default settings")
  /\ UNCHANGED <<prefStore, nonPrefVars>>

\* every read in flight stops counting as following the latest save
Unclean(tasks) == [i \in 1..Len(tasks) |-> [tasks[i] EXCEPT !.clean = FALSE]]

\* loadSavedPreferences up to its await: the preferences it takes from local storage
LoadLocal ==
  IF lsPrefs = <<>> THEN currentPreferences
  ELSE Spread(getDefaultPreferences, JSONParse(lsPrefs[1]))

\* loadSavedPreferences up to its await, for the user `user`: local storage is
\* applied, and a signed-in user's remote preferences are requested
loadSavedPreferences(user, tasks, rt) ==
  /\ user # NoUser => Len(tasks) < MaxTasks
  /\ currentPreferences' = LoadLocal
  /\ applied' = IF lsPrefs = <<>> THEN applied ELSE applyAllPreferences(LoadLocal)
  /\ loadTasks' = IF user # NoUser
                  THEN Append(tasks, [uid |-> user, clean |-> rt /\ saveTasks = <<>>])
                  ELSE tasks

\* StyleCustomizer.loadSavedPreferences, called on its own
LoadSavedPreferences ==
  /\ loadSavedPreferences(fbUser, loadTasks, roundTrip)
  /\ lastOp' = PrefOp("loadSavedPreferences", 0,
                      IF fbUser = NoUser THEN "done" ELSE "pending", NoToast)
  /\ UNCHANGED <<lsPrefs, fbUser, remoteDoc, saveTasks, prefSubs, unsubscribePreferences,
                 authObserver, snapPending, roundTrip,
                 nonPrefVars>>

RemoveAt(s, i) == SubSeq(s, 1, i - 1) \o SubSeq(s, i + 1, Len(s))

\* FirebaseService.getUserPreferences over getUserDocument: what the read of
\* document `doc` returns when the network call succeeds (netOk) or throws
getUserPreferences(doc, netOk) ==
  IF netOk /\ doc.exists /\ doc.prefs # <<>>
  THEN [success |-> TRUE, preferences |-> doc.prefs[1]]
  ELSE [success |-> TRUE, preferences |-> serviceDefaultPreferences]

ReadOutcome(doc, netOk) ==
  IF ~netOk THEN "error" ELSE IF ~doc.exists THEN "missing" ELSE "ok"

\* loadSavedPreferences after its await: the remote read i has returned
LoadResult(i, netOk) ==
  /\ i \in 1..Len(loadTasks)
  /\ LET doc == remoteDoc[loadTasks[i].uid]
         result == getUserPreferences(doc, netOk)
         merged == Spread(getDefaultPreferences, result.preferences)
     IN /\ IF result.success
           THEN /\ currentPreferences' = merged
                /\ applied' = applyAllPreferences(merged)
                /\ lsPrefs' = <<JSONStringify(merged)>>
           ELSE UNCHANGED <<currentPreferences, applied, lsPrefs>>
        /\ lastOp' = PrefOp("loadResult", i, ReadOutcome(doc, netOk), NoToast)
  /\ loadTasks' = Unclean(RemoveAt(loadTasks, i))
  /\ roundTrip' = FALSE
  /\ UNCHANGED <<fbUser, remoteDoc, saveTasks, prefSubs, unsubscribePreferences, authObserver,
                 snapPending, nonPrefVars>>

\* click on #saveStyleBtn: savePreferences up to its await
SavePreferences ==
  /\ fbUser # NoUser => Len(saveTasks) < MaxTasks
  /\ lsPrefs' = <<JSONStringify(currentPreferences)>>
  /\ saveTasks' = IF fbUser # NoUser
                  THEN Append(saveTasks, [uid |-> fbUser, prefs |-> currentPreferences])
                  ELSE saveTasks
  /\ roundTrip' = TRUE
  /\ loadTasks' = Unclean(loadTasks)
  /\ lastOp' = PrefOp("savePreferences", 0, IF fbUser = NoUser THEN "done" ELSE "pending",
                      IF fbUser = NoUser THEN "Preferences saved locally" ELSE NoToast)
  /\ UNCHANGED <<currentPreferences, applied, fbUser, remoteDoc, prefSubs,
                 unsubscribePreferences, authObserver, snapPending,
                 nonPrefVars>>

\* savePreferences after its await: the remote write i (updateDoc) has returned;
\* updateDoc fails on a missing document
SaveResult(i, netOk) ==
  /\ i \in 1..Len(saveTasks)
  /\ LET task == saveTasks[i]
         ok == netOk /\ remoteDoc[task.uid].exists
     IN /\ remoteDoc' = IF ok
                        THEN [remoteDoc EXCEPT ![task.uid] =
                                [exists |-> TRUE, prefs |-> <<task.prefs>>]]
                        ELSE remoteDoc
        /\ snapPending' = IF ok THEN snapPending \cup (prefSubs \cap {task.uid})
                          ELSE snapPending
        /\ lastOp' = PrefOp("saveResult", i, ReadOutcome(remoteDoc[task.uid], netOk),
                            IF ok THEN "Preferences saved successfully!"
                            ELSE "Failed to save preferences to cloud")
  /\ saveTasks' = RemoveAt(saveTasks, i)
  /\ UNCHANGED <<currentPreferences, applied, lsPrefs, fbUser, loadTasks, prefSubs,
                 unsubscribePreferences, authObserver,
                 roundTrip, nonPrefVars>>

\* faulty variant of Notify: PlaylistManager is not told
NotifyStyleOnly(user) == [style |-> user, playlist |-> NoUser]

\* AuthManager's listener: the user passed to StyleCustomizer.onUserChange and
\* to PlaylistManager.onUserChange
Notify(user) == [style |-> user, playlist |-> user]

\* the auth observer reports `user`: FirebaseService.onAuthStateChange sets
\* currentUser, and AuthManager's listener calls StyleCustomizer.onUserChange
\* (a load, and for a signed-in user a subscription to the user document) and
\* PlaylistManager.onUserChange (for a signed-in user, loadSavedPlaylist asks
\* for the remote playlist)
AuthStateChanged(user) ==
  /\ authObserver
  /\ user # authUser
  /\ fbUser' = user
  /\ authUser' = user
  /\ delivered' = Notify(user)
  /\ loadSavedPreferences(user, Unclean(loadTasks), FALSE)
  /\ prefSubs' = IF user # NoUser THEN prefSubs \cup {user} ELSE prefSubs
  /\ unsubscribePreferences' = IF user # NoUser THEN user ELSE unsubscribePreferences
  /\ snapPending' = IF user # NoUser THEN snapPending \cup {user} ELSE snapPending
  /\ playlistLoads' = IF user # NoUser THEN playlistLoads \cup {user} ELSE playlistLoads
  /\ roundTrip' = FALSE
  /\ lastOp' = PrefOp("onUserChange", user, "none", NoToast)
  /\ UNCHANGED <<lsPrefs, remoteDoc, saveTasks, authObserver, playVars, mediaVars, listVars,
                 barVars, isAuthModalOpen, loading, authCalls, remotePlaylist, app,
                 progressShown>>

\* FirebaseService.cleanup: the stored handles are called, which cancels the auth
\* observer and the subscription opened last
Cleanup ==
  /\ authObserver' = FALSE
  /\ prefSubs' = prefSubs \ {unsubscribePreferences}
  /\ lastOp' = PrefOp("cleanup", 0, "none", NoToast)
  /\ UNCHANGED <<currentPreferences, applied, lsPrefs, fbUser, remoteDoc, loadTasks,
                 saveTasks, unsubscribePreferences, snapPending, roundTrip, nonPrefVars>>

\* faulty variant of SnapshotDelivered: the update is stored but not applied
SnapshotNotApplied(uid) ==
  /\ uid \in snapPending \cap prefSubs
  /\ snapPending' = snapPending \ {uid}
  /\ LET doc == remoteDoc[uid]
         preferences == IF doc.prefs # <<>> THEN doc.prefs[1] ELSE serviceDefaultPreferences
     IN /\ currentPreferences' = IF doc.exists
                                 THEN Spread(getDefaultPreferences, preferences)
                                 ELSE currentPreferences
        /\ lastOp' = PrefOp("snapshot", uid, IF doc.exists THEN "delivered" ELSE "missing",
                            NoToast)
  /\ UNCHANGED <<applied, lsPrefs, fbUser, remoteDoc, loadTasks, saveTasks, prefSubs,
                 unsubscribePreferences, authObserver,
                 roundTrip, nonPrefVars>>

\* the onSnapshot listener of onPreferencesChange fires for the document of uid;
\* the callback of StyleCustomizer is called when the document exists
SnapshotDelivered(uid) ==
  /\ uid \in snapPending \cap prefSubs
  /\ snapPending' = snapPending \ {uid}
  /\ LET doc == remoteDoc[uid]
         preferences == IF doc.prefs # <<>> THEN doc.prefs[1] ELSE serviceDefaultPreferences
         merged == Spread(getDefaultPreferences, preferences)
     IN /\ IF doc.exists
           THEN /\ currentPreferences' = merged
                /\ applied' = applyAllPreferences(merged)
           ELSE UNCHANGED <<currentPreferences, applied>>
        /\ lastOp' = PrefOp("snapshot", uid, IF doc.exists THEN "delivered" ELSE "missing",
                            NoToast)
  /\ UNCHANGED <<lsPrefs, fbUser, remoteDoc, loadTasks, saveTasks, prefSubs,
                 unsubscribePreferences, authObserver, roundTrip,
                 nonPrefVars>>

\* the preferences another device of the user writes
RemoteChoices == {[serviceDefaultPreferences EXCEPT !.theme = "dark"]}

\* another device of user uid writes the user document
RemoteUpdate(uid, p) ==
  /\ remoteDoc[uid] # [exists |-> TRUE, prefs |-> <<p>>]
  /\ remoteDoc' = [remoteDoc EXCEPT ![uid] = [exists |-> TRUE, prefs |-> <<p>>]]
  /\ snapPending' = snapPending \cup (prefSubs \cap {uid})
  /\ roundTrip' = FALSE
  /\ loadTasks' = Unclean(loadTasks)
  /\ lastOp' = PrefOp("remoteUpdate", 0, "none", NoToast)
  /\ UNCHANGED <<currentPreferences, applied, lsPrefs, fbUser, saveTasks, prefSubs,
                 unsubscribePreferences, authObserver,
                 nonPrefVars>>

----------------------------------------------------------------------------
\* AuthManager and the remote playlist documents

\* the characters [^\s@] excludes
SpaceOrAt == {" ", "@"}

\* /^[^\s@]+@[^\s@]+\.[^\s@]+$/.test(email)
validateEmail(email) ==
  \E i \in 2..Len(email), k \in 2..Len(email) :
    /\ email[i] = "@"
    /\ email[k] = "."
    /\ i + 1 < k /\ k < Len(email)
    /\ \A j \in 1..Len(email) : j # i => email[j] \notin SpaceOrAt

\* the 6 of password.length < 6
MinPasswordLength == 6

\* what is typed into the email fields
Emails ==
  { <<"a", "@", "b", ".", "c">>,
    <<" ", "a", "@", "b", ".", "c">>,
    <<"a", "@", "b">>,
    <<"a", " ", "@", "b", ".", "c">> }

\* what is typed into the password fields: nothing, 3 and 6 characters
Passwords == {<<>>, <<"p", "q", "r">>, <<"p", "q", "r", "s", "t", "u">>}

authFrame == <<playVars, mediaVars, listVars, barVars, prefVars, delivered, playlistLoads,
               remotePlaylist, app, progressShown>>

\* click on #userBtn
OpenModal ==
  /\ isAuthModalOpen' = TRUE
  /\ lastOp' = Op("openModal", 0, "none", NoToast)
  /\ UNCHANGED <<authUser, loading, authCalls, authFrame>>

\* click on #closeUserModal or on the backdrop, or Escape
CloseModal ==
  /\ isAuthModalOpen' = FALSE
  /\ lastOp' = Op("closeModal", 0, "none", NoToast)
  /\ UNCHANGED <<authUser, loading, authCalls, authFrame>>

\* faulty variant of Refused: the loading indicator is switched on first
RefusedWhileLoading(name, input, outcome, toast) ==
  /\ lastOp' = Op(name, input, outcome, toast)
  /\ loading' = TRUE
  /\ UNCHANGED <<authUser, isAuthModalOpen, authCalls, authFrame>>

\* a validation failure of handleLogin / handleSignup: a toast and a return
Refused(name, input, outcome, toast) ==
  /\ lastOp' = Op(name, input, outcome, toast)
  /\ UNCHANGED <<authUser, isAuthModalOpen, loading, authCalls, authFrame>>

\* setLoading(true) and the call of the provider, up to the await
CallProvider(name, input, call) ==
  /\ Cardinality(authCalls \cup {call}) <= MaxAuthCalls
  /\ loading' = TRUE
  /\ authCalls' = authCalls \cup {call}
  /\ lastOp' = Op(name, input, "called", NoToast)
  /\ UNCHANGED <<authUser, isAuthModalOpen, authFrame>>

\* AuthManager.handleLogin up to its await
HandleLogin(typedEmail, password) ==
  LET email == Trim(typedEmail)
      input == <<typedEmail, password>>
  IN IF ~validateEmail(email)
     THEN Refused("handleLogin", input, "invalidEmail", "Please enter a valid email address")
     ELSE IF password = <<>>
     THEN Refused("handleLogin", input, "noPassword", "Please enter your password")
     ELSE CallProvider("handleLogin", input,
                       [kind |-> "signIn", email |-> email, password |-> password])

\* AuthManager.handleSignup up to its await
HandleSignup(typedEmail, password) ==
  LET email == Trim(typedEmail)
      input == <<typedEmail, password>>
  IN IF ~validateEmail(email)
     THEN Refused("handleSignup", input, "invalidEmail", "Please enter a valid email address")
     ELSE IF Len(password) < MinPasswordLength
     THEN Refused("handleSignup", input, "shortPassword",
                  "Password must be at least 6 characters long")
     ELSE CallProvider("handleSignup", input,
                       [kind |-> "signUp", email |-> email, password |-> password])

\* AuthManager.handleLogout up to its await; its only caller is the click on
\* #logoutBtn, which setLoading disables
HandleLogout ==
  /\ ~loading
  /\ CallProvider("handleLogout", 0, [kind |-> "signOut", email |-> <<>>, password |-> <<>>])

\* the toast of a provider call's result
ResultToast(kind, ok) ==
  IF ok
  THEN (IF kind = "signIn" THEN "Successfully signed in!"
        ELSE IF kind = "signUp" THEN "Account created successfully!"
        ELSE "Successfully signed out")
  ELSE (IF kind = "signOut" THEN "Sign out failed" ELSE "provider error message")

\* the provider answers a call: firebaseService.signIn / signUp / signOut return
\* and the handler continues after its await (toast, closeModal on success,
\* setLoading(false)).  signOut clears FirebaseService.currentUser itself; signUp
\* writes the user document of the new account `a` when docOk.
AuthResult(call, ok, a, docOk) ==
  /\ call \in authCalls
  /\ authCalls' = authCalls \ {call}
  /\ loading' = FALSE
  /\ isAuthModalOpen' = IF ok THEN FALSE ELSE isAuthModalOpen
  /\ fbUser' = IF ok /\ call.kind = "signOut" THEN NoUser ELSE fbUser
  /\ IF ok /\ call.kind = "signUp" /\ docOk /\ ~remoteDoc[a].exists
     THEN /\ remoteDoc' = [remoteDoc EXCEPT
                             ![a] = [exists |-> TRUE, prefs |-> <<serviceDefaultPreferences>>]]
          /\ snapPending' = snapPending \cup (prefSubs \cap {a})
          /\ loadTasks' = Unclean(loadTasks)
          /\ roundTrip' = FALSE
     ELSE UNCHANGED <<remoteDoc, snapPending, loadTasks, roundTrip>>
  /\ lastOp' = Op("authResult", call.kind, IF ok THEN "ok" ELSE "error",
                  ResultToast(call.kind, ok))
  /\ UNCHANGED <<authUser, delivered, playlistLoads, remotePlaylist, currentPreferences,
                 applied, lsPrefs, saveTasks, prefSubs, unsubscribePreferences, authObserver,
                 playVars, mediaVars, listVars,
                 barVars, app, progressShown>>

\* what firebaseService.getPlaylist answers for the document `songs`
getPlaylist(songs, netOk) ==
  IF netOk THEN [success |-> TRUE, playlist |-> songs]
  ELSE [success |-> FALSE, playlist |-> <<>>]

\* loadSavedPlaylist after its await: the answer of getPlaylist for `uid`
\* arrives; a non-empty list only makes the playlist render again
PlaylistLoadResult(uid, netOk) ==
  /\ uid \in playlistLoads
  /\ playlistLoads' = playlistLoads \ {uid}
  /\ LET result == getPlaylist(remotePlaylist[uid], netOk)
     IN lastOp' = Op("playlistLoaded", uid,
                     IF ~result.success THEN "error"
                     ELSE IF Len(result.playlist) > 0 THEN "ok" ELSE "empty",
                     NoToast)
  /\ UNCHANGED <<playVars, mediaVars, listVars, barVars, prefVars, authUser,
                 isAuthModalOpen, loading, authCalls, delivered, remotePlaylist, app, progressShown>>

\* firebaseService.savePlaylist: the setDoc of a snapshot in flight completes
PlaylistSaveResult(w, netOk) ==
  /\ w \in playlistSaves
  /\ playlistSaves' = playlistSaves \ {w}
  /\ remotePlaylist' = IF netOk THEN [remotePlaylist EXCEPT ![w.uid] = w.songs]
                       ELSE remotePlaylist
  /\ lastOp' = Op("playlistSaved", w.uid, IF netOk THEN "ok" ELSE "error", NoToast)
  /\ UNCHANGED <<playVars, mediaVars, mgrRef, heap, filteredPlaylist, searchTerm, nextBlob,
                 revoked, now, lsPlaylist, barVars, prefVars, authUser, isAuthModalOpen,
                 loading, authCalls, delivered, playlistLoads, app, progressShown>>

----------------------------------------------------------------------------
\* SoundBoundApp

\* the components initializeApp constructs, in its order
Components == <<"audioPlayer", "styleCustomizer", "authManager", "playlistManager">>

\* SoundBoundApp.initializeApp, called once by the constructor, which does not
\* handle its promise.  The body has no await and runs in one step.  The
\* constructor of component number `thrower` throws (0: none does).  In the
\* catch, showToast appends to this.toastContainer, which only
\* initializeToastSystem sets: while it is unset the call throws a TypeError out
\* of the catch, showLoading(false) is not reached and the promise is rejected.
InitializeApp(thrower) ==
  /\ app.phase = "new"
  /\ LET built == {Components[k] : k \in 1..(IF thrower = 0 THEN Len(Components)
                                                ELSE thrower - 1)}
         shown == app.toastContainer
     IN IF thrower = 0
        THEN /\ app' = [phase |-> "initialized", constructed |-> built,
                        loadingActive |-> FALSE, toastContainer |-> TRUE]
             /\ lastOp' = Op("initializeApp", thrower, "initialized",
                             "Welcome to SoundBound!")
        ELSE /\ app' = [phase |-> IF shown THEN "failed" ELSE "rejected",
                        constructed |-> built,
                        loadingActive |-> ~shown,
                        toastContainer |-> app.toastContainer]
             /\ lastOp' = Op("initializeApp", thrower,
                             IF shown THEN "failed" ELSE "rejected",
                             IF shown THEN "Failed to initialize application" ELSE NoToast)
  /\ UNCHANGED <<playVars, mediaVars, listVars, barVars, prefVars, authVars, progressShown>>

----------------------------------------------------------------------------
\* The state after construction, and the specifications

\* what an earlier session may have left under 'soundbound-preferences'
StoredBefore == {<<>>, <<JSONStringify([getDefaultPreferences EXCEPT !.theme = "dark"])>>}

\* a user document as signUp creates it, or none when that write failed
DocsBefore ==
  { [exists |-> FALSE, prefs |-> <<>>],
    [exists |-> TRUE, prefs |-> <<serviceDefaultPreferences>>] }

\* the song list an earlier session of the second account saved remotely
SongsBefore ==
  <<[id |-> 0, name |-> <<"B", "a">>, artist |-> <<"A", "b">>, duration |-> 0]>>

InitComponents ==
  /\ isPlaying = FALSE
  /\ currentTrackIndex = 0
  /\ playerRef = PlayerArray
  /\ mgrRef = MgrArray
  /\ heap = (MgrArray :> <<>>) @@ (PlayerArray :> <<>>)
  /\ volume = InitialVolume
  /\ isMuted = FALSE
  /\ isDragging = "false"
  /\ trackTitle = <<>>
  /\ trackArtist = <<>>
  /\ audioSrc = EmptySrc
  /\ audioState = "idle"
  /\ audioVolume = VolumeOne
  /\ audioCurrentTime = 0
  /\ audioDuration = NaNDuration
  /\ filteredPlaylist = <<>>
  /\ searchTerm = <<>>
  /\ nextBlob = 0
  /\ revoked = {}
  /\ now = 0
  /\ lsPlaylist = <<>>
  /\ playlistSaves = {}
  /\ lsPrefs \in StoredBefore
  /\ currentPreferences = IF lsPrefs = <<>> THEN getDefaultPreferences
                          ELSE Spread(getDefaultPreferences, JSONParse(lsPrefs[1]))
  /\ applied = IF lsPrefs = <<>> THEN Unstyled
               ELSE applyAllPreferences(currentPreferences)
  /\ fbUser = NoUser
  /\ remoteDoc \in {d \in [Accounts -> DocsBefore] :
                       \A a \in Accounts \ Users : ~d[a].exists}
  /\ authUser = NoUser
  /\ isAuthModalOpen = FALSE
  /\ loading = FALSE
  /\ authCalls = {}
  /\ delivered = Notify(NoUser)
  /\ playlistLoads = {}
  /\ remotePlaylist = [a \in Accounts |-> IF a \in Users THEN <<>> ELSE SongsBefore]
  /\ loadTasks = <<>>
  /\ saveTasks = <<>>
  /\ prefSubs = {}
  /\ unsubscribePreferences = NoUser
  /\ authObserver = TRUE
  /\ snapPending = {}
  /\ roundTrip = FALSE
  /\ progressShown = [fill |-> <<>>, time |-> <<>>]
  /\ lastOp = Op("init", 0, "none", NoToast)

\* the state after a successful initializeApp
Init ==
  /\ InitComponents
  /\ app = [phase |-> "initialized", constructed |-> {Components[k] : k \in 1..Len(Components)},
            loadingActive |-> FALSE, toastContainer |-> TRUE]

\* the state when the SoundBoundApp constructor calls initializeApp
InitBoot ==
  /\ InitComponents
  /\ app = [phase |-> "new", constructed |-> {}, loadingActive |-> FALSE,
            toastContainer |-> FALSE]

\* the selections of 1..MaxBatch files out of the set S
Batches(S) == UNION {[1..n -> S] : n \in 1..MaxBatch}

\* one audio file and one file that is not audio
SomeFiles == {f \in Files : f.minor \in {"mpeg", "png"}}

\* the search terms typed
Queries == {<<>>, <<"B">>, <<"u">>}

\* the player and the playlist
Next ==
  \/ \E files \in Batches(SomeFiles) : HandleFileSelection(files)
  \/ \E i \in 0..MaxTracks : SelectTrack(i)
  \/ \E i \in 0..MaxTracks : RemoveTrack(i)
  \/ ClearPlaylist
  \/ TogglePlay
  \/ PlayResolved
  \/ PlayRejected
  \/ AudioError
  \/ PreviousTrack
  \/ NextTrack
  \/ TrackEnded

Spec == Init /\ [][Next]_vars

\* the levels setVolumeLevel is called with: below 0, inside, above 1
VolumeLevels == {0 - VolumeStep, 0, 3 * VolumeStep, VolumeOne, VolumeOne + VolumeStep}

\* the progress bar, with files to load
NextSeek ==
  \/ \E f \in SomeFiles : HandleFileSelection(<<f>>)
  \/ \E d \in 1..MaxDuration : LoadedMetadata(d)
  \/ \E x \in OnBar : ClickProgress(x)
  \/ \E x \in OnBar : StartDraggingProgress(x)
  \/ \E x \in Anywhere : HandleDragging(x)
  \/ StopDragging

SpecSeek == Init /\ [][NextSeek]_vars

\* the volume bar, the volume keys and the mute button
NextVolume ==
  \/ \E x \in OnBar : ClickVolume(x)
  \/ \E x \in OnBar : StartDraggingVolume(x)
  \/ \E x \in Anywhere : HandleDragging(x)
  \/ StopDragging
  \/ AdjustVolume(VolumeStep)
  \/ AdjustVolume(0 - VolumeStep)
  \/ \E v \in VolumeLevels : SetVolumeLevel(v)
  \/ ToggleMute

SpecVolume == Init /\ [][NextVolume]_vars

\* start-up, and the volume controls of a constructed AudioPlayer
NextBoot ==
  \/ \E thrower \in 0..Len(Components) : InitializeApp(thrower)
  \/ /\ "audioPlayer" \in app.constructed
     /\ NextVolume

SpecBoot == InitBoot /\ [][NextBoot]_vars

\* the two bars during the playback of one track
NextDrag ==
  \/ /\ MgrPlaylist = <<>>
     /\ \E f \in SomeFiles : HandleFileSelection(<<f>>)
  \/ LoadedMetadata(MaxDuration)
  \/ TogglePlay
  \/ PlayResolved
  \/ \E advance \in 0..1 : TimeUpdate(advance)
  \/ \E x \in OnBar : StartDraggingProgress(x)
  \/ \E x \in OnBar : StartDraggingVolume(x)
  \/ \E x \in Anywhere : HandleDragging(x)
  \/ StopDragging

SpecDrag == Init /\ [][NextDrag]_vars

\* the playlist and its search filter
NextSearch ==
  \/ \E f \in Files : HandleFileSelection(<<f>>)
  \/ \E q \in Queries : HandleSearch(q)
  \/ \E i \in 0..MaxTracks : RemoveTrack(i)
  \/ ClearPlaylist

SpecSearch == Init /\ [][NextSearch]_vars

\* live preview and explicit save, signed out and signed in
NextEdits ==
  \/ \E t \in Themes : SelectTheme(t)
  \/ \E z \in Sizes : SelectSize(z)
  \/ \E b \in Backgrounds : SelectBackground(b)
  \/ \E f \in FontSizes : UpdateFontSize(f)
  \/ \E a \in AnimationSpeeds : UpdateAnimationSpeed(a)
  \/ ResetToDefault
  \/ SavePreferences
  \/ \E i \in 1..MaxTasks, ok \in BOOLEAN : SaveResult(i, ok)
  \/ \E u \in Users \cup {NoUser} : AuthStateChanged(u)
  \/ \E i \in 1..MaxTasks, ok \in BOOLEAN : LoadResult(i, ok)

SpecEdits == Init /\ [][NextEdits]_vars

\* sign-in, sign-up and sign-out, with the components the auth observer tells
NextAuth ==
  \/ OpenModal
  \/ CloseModal
  \/ \E e \in Emails, pw \in Passwords : HandleLogin(e, pw)
  \/ \E e \in Emails, pw \in Passwords : HandleSignup(e, pw)
  \/ \E c \in authCalls, ok \in BOOLEAN, a \in Accounts, docOk \in BOOLEAN :
       AuthResult(c, ok, a, docOk)
  \/ \E f \in SomeFiles : HandleFileSelection(<<f>>)
  \/ \E f \in SomeFiles : HandleDrop(<<f>>)

SpecAuth == Init /\ [][NextAuth]_vars

\* the auth observer and the components it tells, with sign-out requests
NextObserver ==
  \/ \E u \in Accounts \cup {NoUser} : AuthStateChanged(u)
  \/ \E i \in 1..MaxTasks, ok \in BOOLEAN : LoadResult(i, ok)
  \/ \E u \in Accounts, ok \in BOOLEAN : PlaylistLoadResult(u, ok)
  \/ HandleLogout
  \/ \E c \in authCalls, ok \in BOOLEAN : AuthResult(c, ok, "u2", FALSE)
  \/ \E f \in SomeFiles : HandleFileSelection(<<f>>)

SpecObserver == Init /\ [][NextObserver]_vars

\* the playlist and its local and remote snapshots across sign-in and sign-out
NextSync ==
  \/ \E u \in Users \cup {NoUser} : AuthStateChanged(u)
  \/ \E i \in 1..MaxTasks, ok \in BOOLEAN : LoadResult(i, ok)
  \/ \E w \in playlistSaves, ok \in BOOLEAN : PlaylistSaveResult(w, ok)
  \/ \E f \in SomeFiles : HandleFileSelection(<<f>>)
  \/ \E f \in SomeFiles : HandleDrop(<<f>>)
  \/ \E i \in 0..MaxTracks : RemoveTrack(i)
  \/ ClearPlaylist

SpecSync == Init /\ [][NextSync]_vars

\* the lifetime of the object locators
NextBlobs ==
  \/ \E f \in Files : HandleFileSelection(<<f>>)
  \/ \E i \in 0..MaxTracks : RemoveTrack(i)
  \/ ClearPlaylist
  \/ Destroy

SpecBlobs == Init /\ [][NextBlobs]_vars

\* batches of audio files added and tracks removed while the clock runs
NextIds ==
  \/ Tick
  \/ \E files \in Batches(SomeFiles) : HandleFileSelection(files)
  \/ \E i \in 0..MaxTracks : RemoveTrack(i)
  \/ ClearPlaylist

SpecIds == Init /\ [][NextIds]_vars

\* users signing in and out, their preference subscriptions, and the cleanup
NextSubs ==
  \/ \E u \in Accounts \cup {NoUser} : AuthStateChanged(u)
  \/ \E i \in 1..MaxTasks, ok \in BOOLEAN : LoadResult(i, ok)
  \/ \E u \in Accounts : SnapshotDelivered(u)
  \/ \E u \in Users, p \in RemoteChoices : RemoteUpdate(u, p)
  \/ Cleanup

SpecSubs == Init /\ [][NextSubs]_vars

\* the style customizer of a guest, with local storage
NextPrefs ==
  \/ \E t \in Themes : SelectTheme(t)
  \/ \E z \in Sizes : SelectSize(z)
  \/ \E b \in Backgrounds : SelectBackground(b)
  \/ \E f \in FontSizes : UpdateFontSize(f)
  \/ \E a \in AnimationSpeeds : UpdateAnimationSpeed(a)
  \/ ResetToDefault
  \/ LoadSavedPreferences
  \/ SavePreferences

SpecPrefs == Init /\ [][NextPrefs]_vars

\* the style customizer of a user who signs in and out, with the remote store
NextCloud ==
  \/ \E t \in Themes : SelectTheme(t)
  \/ ResetToDefault
  \/ LoadSavedPreferences
  \/ \E i \in 1..MaxTasks, ok \in BOOLEAN : LoadResult(i, ok)
  \/ SavePreferences
  \/ \E i \in 1..MaxTasks, ok \in BOOLEAN : SaveResult(i, ok)
  \/ \E u \in Users \cup {NoUser} : AuthStateChanged(u)
  \/ \E u \in Users : SnapshotDelivered(u)
  \/ \E u \in Users, p \in RemoteChoices : RemoteUpdate(u, p)

SpecCloud == Init /\ [][NextCloud]_vars

----------------------------------------------------------------------------
\* Claims

\* C1: in every reachable state of the player and playlist manager, either
\* currentTrackIndex is a valid index into the player's playlist or playback is
\* stopped (isPlaying is false).
C1_IndexValidOrStopped ==
  HasIndex(PlayerPlaylist, currentTrackIndex) \/ ~isPlaying

Navigations == {"nextTrack", "previousTrack", "ended"}

\* C2: whenever the player's playlist has length N > 0, a call to nextTrack or
\* previousTrack leaves currentTrackIndex in 0..N-1, whatever operations came
\* before the call.
C2_NavigationInRange ==
  (lastOp.name \in Navigations /\ Len(PlayerPlaylist) > 0)
    => HasIndex(PlayerPlaylist, currentTrackIndex)

\* the track at the current index is the one loaded and displayed
CurrentLoaded ==
  /\ HasIndex(PlayerPlaylist, currentTrackIndex)
  /\ audioSrc = At(PlayerPlaylist, currentTrackIndex).url
  /\ trackTitle = At(PlayerPlaylist, currentTrackIndex).name

\* C3: for a playlist of length N > 0 and a current index i in 0..N-1,
\* nextTrack sets currentTrackIndex to (i+1) mod N and previousTrack sets it to
\* (i-1+N) mod N, and the track at the new index is loaded.
C3_NavigationWraps ==
  [][ LET N == Len(PlayerPlaylist)
          i == currentTrackIndex
      IN (N > 0 /\ i \in 0..(N - 1)) =>
           /\ lastOp'.name = "nextTrack" =>
                (currentTrackIndex' = (i + 1) % N /\ CurrentLoaded')
           /\ lastOp'.name = "previousTrack" =>
                (currentTrackIndex' = (i - 1 + N) % N /\ CurrentLoaded') ]_vars

\* C3 witness: with three tracks, nextTrack has wrapped from the last track to
\* the first, which is loaded
C3_Witness ==
  /\ lastOp.name = "nextTrack" /\ lastOp.outcome = "wrap"
  /\ Len(PlayerPlaylist) = 3
  /\ currentTrackIndex = 0
  /\ CurrentLoaded

\* C4: removing the track at currentTrackIndex stops playback, clears the audio
\* source and resets the now-playing display to 'No track selected', whether
\* or not the track was playing.
C4_RemoveCurrentStops ==
  [][ (/\ lastOp'.name = "removeTrack"
       /\ HasIndex(MgrPlaylist, lastOp'.index)
       /\ lastOp'.index = currentTrackIndex)
      => (/\ ~isPlaying'
          /\ audioSrc' = ClearedSrc
          /\ audioState' = "idle"
          /\ trackTitle' = NoTrackSelected) ]_vars

\* C4 witness: the current track was removed while it was playing
C4_Witness ==
  /\ lastOp.name = "removeTrack" /\ lastOp.outcome = "currentPlaying"
  /\ ~isPlaying /\ audioSrc = ClearedSrc

\* C5: removeTrack(i) with a valid i other than currentTrackIndex leaves
\* isPlaying and the audio source unchanged, decrements currentTrackIndex by
\* one when i < currentTrackIndex and leaves it unchanged when i > it.
C5_RemoveOtherShifts ==
  [][ (/\ lastOp'.name = "removeTrack"
       /\ HasIndex(MgrPlaylist, lastOp'.index)
       /\ lastOp'.index # currentTrackIndex)
      => (/\ isPlaying' = isPlaying
          /\ audioSrc' = audioSrc
          /\ audioState' = audioState
          /\ currentTrackIndex' = IF lastOp'.index < currentTrackIndex
                                  THEN currentTrackIndex - 1
                                  ELSE currentTrackIndex) ]_vars

\* C5 witness: a track before the current one was removed during playback
C5_Witness ==
  /\ lastOp.name = "removeTrack" /\ lastOp.outcome = "before"
  /\ isPlaying /\ audioSrc \notin {EmptySrc, ClearedSrc}

\* letters that differ only in case
CasePairs == {<<"A", "a">>, <<"B", "b">>, <<"C", "c">>, <<"U", "u">>, <<"T", "t">>}
SameLetter(a, b) == a = b \/ <<a, b>> \in CasePairs \/ <<b, a>> \in CasePairs

\* s contains q, case-insensitively
ContainsIgnoringCase(s, q) ==
  \E i \in 0..(Len(s) - Len(q)) : \A k \in 1..Len(q) : SameLetter(s[i + k], q[k])

\* the tracks of pl, in order, whose name or artist contains q
RECURSIVE Matching(_, _)
Matching(pl, q) ==
  IF pl = <<>> THEN <<>>
  ELSE IF ContainsIgnoringCase(pl[1].name, q) \/ ContainsIgnoringCase(pl[1].artist, q)
       THEN <<pl[1]>> \o Matching(Tail(pl), q)
       ELSE Matching(Tail(pl), q)

\* C6: handleSearch(q) sets filteredPlaylist to exactly the tracks of playlist
\* whose name or artist contains q case-insensitively, in playlist order, and
\* never changes the playlist; after every later add, removeTrack or
\* clearPlaylist the filtered view still equals that filter of the playlist.
C6_SearchIsFilter ==
  /\ [](filteredPlaylist = Matching(MgrPlaylist, searchTerm))
  /\ [][ lastOp'.name = "handleSearch" =>
           /\ filteredPlaylist' = Matching(MgrPlaylist, lastOp'.index)
           /\ MgrPlaylist' = MgrPlaylist
           /\ PlayerPlaylist' = PlayerPlaylist ]_vars

\* C6 witness: under a search term that keeps some tracks and drops others, a
\* file was added after the search
C6_Witness ==
  /\ lastOp.name = "handleFileSelection" /\ lastOp.outcome # "rejected"
  /\ searchTerm # <<>>
  /\ Len(filteredPlaylist) > 0
  /\ Len(filteredPlaylist) < Len(MgrPlaylist)

Seeks == {"seekTo", "dragProgress"}

\* C7: seekTo assigns fraction x duration with the fraction clamped to [0,1],
\* so the assigned position is within [0,duration] even when the pointer is
\* left or right of the bar.
C7_SeekWithinDuration ==
  (lastOp.name \in Seeks /\ audioDuration.finite)
    => (0 <= audioCurrentTime /\ audioCurrentTime <= audioDuration.secs * BarWidth)

VolumeSetters == {"setVolume", "dragVolume", "adjustVolume", "setVolumeLevel"}

\* C8: after setVolume (at any pointer position), adjustVolume or
\* setVolumeLevel(v), the player's volume and the audio element's volume are
\* both within [0,1] and equal, and isMuted is false.
C8_VolumeClamped ==
  lastOp.name \in VolumeSetters
    => (/\ 0 <= volume /\ volume <= VolumeOne
        /\ audioVolume = volume
        /\ ~isMuted)

\* C8 witness: a volume drag with the pointer right of the bar gave volume 1
C8_Witness ==
  /\ lastOp.name = "dragVolume"
  /\ lastOp.index > BarLeft + BarWidth
  /\ volume = VolumeOne

\* p and q agree on the five preference fields
SamePreferences(p, q) == \A k \in DOMAIN getDefaultPreferences : p[k] = q[k]

\* C9: if savePreferences is called with currentPreferences = P and afterwards,
\* with no remote update in between and the same authentication state,
\* loadSavedPreferences runs to completion, then currentPreferences equals P in
\* all five fields, for a guest and for a signed-in user, whatever the outcome
\* of the remote save.  (roundTrip: local storage holds P.)
C9_SaveLoadRoundTrip ==
  [][ /\ (lastOp'.name = "loadSavedPreferences" /\ lastOp'.outcome = "done" /\ roundTrip)
         => SamePreferences(currentPreferences', JSONParse(lsPrefs[1]))
      /\ (lastOp'.name = "loadResult" /\ loadTasks[lastOp'.index].clean)
         => SamePreferences(currentPreferences', JSONParse(lsPrefs[1])) ]_vars

Failures == {"error", "missing"}

\* C10: when a remote-store read or write fails, the operation is abandoned:
\* currentPreferences, the applied visual state, the playlist and both
\* local-storage values are the same after the failed result is processed as
\* they were before it arrived.
C10_FailureChangesNothing ==
  [][ (lastOp'.name \in {"loadResult", "saveResult"} /\ lastOp'.outcome \in Failures)
      => UNCHANGED <<currentPreferences, applied, lsPrefs, lsPlaylist, mgrRef, playerRef,
                     heap, filteredPlaylist>> ]_vars

PlaybackFailures == {"playRejected", "audioError"}

\* C11: once a media playback failure (a rejected play request, or an error
\* event of the audio element) has been handled, a notification has been shown
\* and isPlaying is false, whether the play request came from togglePlay or
\* from loadTrack resuming playback during nextTrack, previousTrack or
\* selectTrack.
C11_FailureStopsPlayback ==
  lastOp.name \in PlaybackFailures => (lastOp.toast # NoToast /\ ~isPlaying)

\* the locators createObjectURL has handed out
Created == 1..nextBlob

\* the locators of the tracks in the playlist
InPlaylist == {MgrPlaylist[i].url : i \in 1..Len(MgrPlaylist)}

\* C12: after any sequence of add, removeTrack, clearPlaylist and destroy, every
\* locator created for a track that is no longer in the playlist has been
\* revoked.
C12_RemovedLocatorsRevoked ==
  \A u \in Created : u \notin InPlaylist => u \in revoked

\* an address of the shape local@domain.tld without whitespace
WellShaped(email) ==
  LET ats == {i \in 1..Len(email) : email[i] = "@"}
  IN /\ Cardinality(ats) = 1
     /\ \A j \in 1..Len(email) : email[j] # " "
     /\ LET at == CHOOSE i \in ats : TRUE
        IN /\ at > 1
           /\ \E dot \in (at + 2)..(Len(email) - 1) : email[dot] = "."

\* C13: handleLogin and handleSignup call the auth provider (signIn / signUp)
\* only with a trimmed email of the shape local@domain.tld without whitespace
\* and a password of at least 6 characters; for other input no call is made.
C13_ProviderCallValidated ==
  [][ \A c \in authCalls' \ authCalls :
        c.kind \in {"signIn", "signUp"} =>
          (WellShaped(c.email) /\ Len(c.password) >= MinPasswordLength) ]_vars

\* the step is a handleLogin / handleSignup that its input fails, or a file
\* selection or drop without an audio file
ValidationFailure ==
  \/ /\ lastOp'.name = "handleLogin"
     /\ ~WellShaped(Trim(lastOp'.index[1])) \/ lastOp'.index[2] = <<>>
  \/ /\ lastOp'.name = "handleSignup"
     /\ ~WellShaped(Trim(lastOp'.index[1])) \/ Len(lastOp'.index[2]) < MinPasswordLength
  \/ /\ lastOp'.name \in {"handleFileSelection", "drop"}
     /\ lastOp'.outcome = "rejected"

EditOps == {"selectTheme", "selectSize", "selectBackground", "updateFontSize",
            "updateAnimationSpeed", "resetToDefault"}

\* an edit shows at once: every preference field it changed is the applied one,
\* and neither local storage nor the remote documents (nor a write to them in
\* flight) change
EditIsPreviewOnly ==
  lastOp'.name \in EditOps =>
    /\ \A k \in DOMAIN getDefaultPreferences :
         currentPreferences'[k] # currentPreferences[k]
           => applied'[k] = currentPreferences'[k]
    /\ UNCHANGED <<lsPrefs, remoteDoc, saveTasks>>

C16_ResetRestoresDefaults ==
  [][ lastOp'.name = "resetToDefault" =>
        /\ currentPreferences' = getDefaultPreferences
        /\ DOMAIN currentPreferences' = DOMAIN getDefaultPreferences
        /\ applied' = applyAllPreferences(getDefaultPreferences)
        /\ lastOp.name = "resetToDefault" => UNCHANGED <<currentPreferences, applied>> ]_vars

\* C16 witness: a reset after preferences with a field of the remote store
\* (volume) and another theme were loaded and written to local storage
C16_Witness ==
  /\ lastOp.name = "resetToDefault"
  /\ currentPreferences = getDefaultPreferences
  /\ lsPrefs # <<>>
  /\ "volume" \in DOMAIN JSONParse(lsPrefs[1])
  /\ JSONParse(lsPrefs[1]).theme # getDefaultPreferences.theme

\* the compiled-in defaults overridden by the preferences in local storage
LocalPreferences(ls) ==
  IF ls = <<>> THEN getDefaultPreferences
  ELSE Spread(getDefaultPreferences, JSONParse(ls[1]))

RemoteEvents == {"snapshot", "loadResult"}

\* C17: when the auth observer reports sign-out, currentPreferences becomes the
\* defaults overridden by the local-storage preferences, and while signed out
\* no remote event (a delivery on the preference stream, the completion of a
\* remote load) changes currentPreferences, the applied visual state or local
\* storage.
C17_SignedOutIsLocalOnly ==
  [][ /\ (lastOp'.name = "onUserChange" /\ lastOp'.index = NoUser)
           => currentPreferences' = LocalPreferences(lsPrefs')
      /\ (authUser = NoUser /\ lastOp'.name \in RemoteEvents)
           => UNCHANGED <<currentPreferences, applied, lsPrefs>> ]_vars

\* the id, name and artist of a track or of a stored song
Identity(t) == [id |-> t.id, name |-> t.name, artist |-> t.artist]

\* C18: when the load started by onUserChange(user) completes with a non-empty
\* song list of that user, the playlist contains those songs; a reported
\* sign-out leaves the playlist unchanged.
C18_SignInLoadsPlaylist ==
  [][ /\ (lastOp'.name = "playlistLoaded" /\ lastOp'.outcome = "ok")
           => \A i \in 1..Len(remotePlaylist[lastOp'.index]) :
                \E j \in 1..Len(heap'[mgrRef']) :
                  Identity(heap'[mgrRef'][j]) = Identity(remotePlaylist[lastOp'.index][i])
      /\ (lastOp'.name = "onUserChange" /\ lastOp'.index = NoUser)
           => UNCHANGED <<heap, mgrRef, playerRef, filteredPlaylist>> ]_vars

\* C19: every auth state change the provider reports sets AuthManager.currentUser
\* and FirebaseService.currentUser to the reported user and reaches both
\* StyleCustomizer.onUserChange and PlaylistManager.onUserChange with that user
\* (for a signed-in user the preference load, the preference stream and the
\* playlist load are started for that user).
C19_ChangeReachesAll ==
  [][ lastOp'.name = "onUserChange" =>
        LET user == lastOp'.index
        IN /\ authUser' = user
           /\ fbUser' = user
           /\ delivered' = [style |-> user, playlist |-> user]
           /\ user # NoUser =>
                /\ \E i \in 1..Len(loadTasks') : loadTasks'[i].uid = user
                /\ user \in prefSubs'
                /\ user \in playlistLoads' ]_vars

\* C19 witness: the observer has reported a second user after a first one
C19_Witness ==
  /\ lastOp.name = "onUserChange"
  /\ lastOp.index = "u2"
  /\ "u1" \in prefSubs
  /\ authUser = "u2"
  /\ delivered.playlist = "u2"

SnapshotFields == {"id", "name", "artist", "duration"}

\* songs has one entry per track of pl, in order, with the four metadata
\* fields only and the track's id, name and artist
MetadataOf(songs, pl) ==
  /\ Len(songs) = Len(pl)
  /\ \A i \in 1..Len(pl) :
       /\ DOMAIN songs[i] = SnapshotFields
       /\ Identity(songs[i]) = Identity(pl[i])

\* op is an add, a removeTrack or a clearPlaylist that changed the playlist
Saving(op) ==
  \/ op.name \in {"handleFileSelection", "drop"} /\ op.outcome # "rejected"
  \/ op.name = "removeTrack" /\ op.outcome # "invalid"
  \/ op.name = "clearPlaylist"

\* C20: after each add, removeTrack and clearPlaylist the local snapshot has one
\* entry per track of the current playlist, in order, holding only id, name,
\* artist and duration, and the same snapshot is sent to the remote document of
\* the authenticated user; no remote write is started without an authenticated
\* user or for another user, and the remote documents only ever receive such
\* snapshots.
C20_SnapshotIsMetadata ==
  [][ /\ Saving(lastOp') =>
           /\ lsPlaylist' # <<>>
           /\ MetadataOf(lsPlaylist'[1], heap'[mgrRef'])
           /\ fbUser # NoUser =>
                [uid |-> fbUser, songs |-> lsPlaylist'[1]] \in playlistSaves'
      /\ lsPlaylist' # lsPlaylist => Saving(lastOp')
      /\ \A w \in playlistSaves' \ playlistSaves :
           /\ Saving(lastOp')
           /\ fbUser # NoUser
           /\ w = [uid |-> fbUser, songs |-> lsPlaylist'[1]]
      /\ \A u \in Accounts :
           remotePlaylist'[u] # remotePlaylist[u] =>
             \E w \in playlistSaves : w.uid = u /\ w.songs = remotePlaylist'[u] ]_vars

\* C20 witness: a signed-in user has removed a track and a snapshot of the
\* remaining tracks is stored locally and on its way to the remote document
C20_Witness ==
  /\ lastOp.name = "removeTrack"
  /\ lastOp.outcome # "invalid"
  /\ fbUser # NoUser
  /\ lsPlaylist # <<>>
  /\ Len(lsPlaylist[1]) >= 1
  /\ [uid |-> fbUser, songs |-> lsPlaylist[1]] \in playlistSaves

\* the indices loadTrack is tried with: below, inside and past the playlist
LoadIndices == (0 - 1)..MaxTracks

\* loadTrack(index) called in the current state does what C21 says
LoadTrackContract(index) ==
  LET s == loadTrack(PlayerState, PlayerPlaylist, index)
  IN IF HasIndex(PlayerPlaylist, index)
     THEN /\ s.src = At(PlayerPlaylist, index).url
          /\ s.idx = index
          /\ s.isPlaying = isPlaying
          /\ s.st = IF isPlaying THEN "requested" ELSE "idle"
     ELSE /\ s.src = audioSrc
          /\ s.idx = currentTrackIndex
          /\ s.isPlaying = isPlaying

\* C21: loadTrack(index) with a valid index sets the audio source to that
\* track's locator and currentTrackIndex to index; when isPlaying was true a
\* play request is made on the new source and isPlaying stays true, when it was
\* false no playback is started; with an invalid index the source,
\* currentTrackIndex and isPlaying stay as they were.  Checked for every index
\* in every reachable state, and on every selectTrack step.
C21_LoadTrackContract ==
  [][ /\ \A index \in LoadIndices : LoadTrackContract(index)
      /\ lastOp'.name = "selectTrack" =>
           /\ audioSrc' = At(PlayerPlaylist, lastOp'.index).url
           /\ currentTrackIndex' = lastOp'.index
           /\ isPlaying' = isPlaying
           /\ audioState' = IF isPlaying THEN "requested" ELSE "idle" ]_vars

\* C21 witness: a track other than the first was selected while playing, and
\* the play request on it is pending
C21_Witness ==
  /\ lastOp.name = "selectTrack"
  /\ lastOp.index > 0
  /\ isPlaying
  /\ audioState = "requested"
  /\ audioSrc = At(PlayerPlaylist, currentTrackIndex).url

\* C22: when the constructor of a component throws inside initializeApp, the
\* 'Failed to initialize application' notification is shown, the loading
\* indicator is not active afterwards and initializeApp's promise is not
\* rejected.
C22_InitFailureHandled ==
  (lastOp.name = "initializeApp" /\ lastOp.index # 0) =>
    /\ lastOp.toast = "Failed to initialize application"
    /\ ~app.loadingActive
    /\ app.phase # "rejected"

Additions == {"handleFileSelection", "drop"}

\* the tracks built for a batch: one per audio file, in the order of the batch
OnePerAudioFile(files) ==
  LET audioFiles == SelectSeq(files, IsAudio)
      newTracks == NewTracks(audioFiles)
  IN /\ Len(newTracks) = Cardinality({i \in 1..Len(files) : IsAudio(files[i])})
     /\ \A i \in 1..Len(newTracks) : newTracks[i].file = audioFiles[i].name

\* C23: a file selection or drop appends one track per audio file of the batch,
\* in order, after the existing tracks, which stay as they were; a batch without
\* audio files adds nothing; and when the player had no source loaded (nothing
\* loaded yet, or the source cleared by the removal of the current track),
\* track 0 becomes the loaded current track and no playback is started.
C23_AddAppends ==
  [][ lastOp'.name \in Additions =>
        /\ \A files \in Batches(Files) : OnePerAudioFile(files)
        /\ Len(heap'[mgrRef']) = Len(MgrPlaylist) + lastOp'.index
        /\ SubSeq(heap'[mgrRef'], 1, Len(MgrPlaylist)) = MgrPlaylist
        /\ lastOp'.outcome = "rejected" => lastOp'.index = 0
        /\ (lastOp'.outcome # "rejected" /\ audioSrc \in {EmptySrc, ClearedSrc}) =>
             /\ currentTrackIndex' = 0
             /\ audioSrc' = heap'[playerRef'][1].url
             /\ audioState' = "idle"
             /\ isPlaying' = isPlaying ]_vars

\* C24: a mousedown on the progress bar or the volume bar enters the drag mode
\* of that bar; in drag mode every mousemove applies seekTo (progress) or
\* setVolume (volume) at the pointer position, and a timeupdate leaves the
\* progress display as it was; a mouseup ends drag mode, and outside drag mode
\* a mousemove changes neither the position nor the volume.
C24_DragMode ==
  [][ /\ lastOp'.name = "dragProgress" =>
           /\ isDragging' = "progress"
           /\ audioCurrentTime' = IF audioDuration.finite
                                   THEN SeekTime(lastOp'.index, audioDuration.secs)
                                   ELSE audioCurrentTime
      /\ lastOp'.name = "dragVolume" =>
           /\ isDragging' = "volume"
           /\ volume' = VolumePercent(lastOp'.index)
           /\ audioVolume' = volume'
      /\ (lastOp'.name = "timeupdate" /\ isDragging # "false") =>
           progressShown' = progressShown
      /\ lastOp'.name = "stopDragging" => isDragging' = "false"
      /\ lastOp'.name = "mousemove" =>
           /\ isDragging = "false"
           /\ UNCHANGED <<isDragging, audioCurrentTime, volume, audioVolume, isMuted>> ]_vars

\* C24 witness: during a progress drag the position has moved and a timeupdate
\* has left the displayed time behind
C24_Witness ==
  /\ lastOp.name = "timeupdate"
  /\ isDragging = "progress"
  /\ progressShown.time # <<>>
  /\ progressShown.time # <<audioCurrentTime>>

\* what the stream delivers for the document doc: its preferences field, or the
\* service's defaults when the field is missing
StreamUpdate(doc) == IF doc.prefs # <<>> THEN doc.prefs[1] ELSE serviceDefaultPreferences

\* C25: when the auth observer reports a signed-in user, StyleCustomizer is
\* subscribed to that user's preference stream; each update p the stream
\* delivers sets currentPreferences to the defaults overridden by p, and the
\* applied theme, size, background, font size and animation speed are then
\* those of currentPreferences.
C25_StreamUpdatesApplied ==
  [][ /\ (lastOp'.name = "onUserChange" /\ lastOp'.index # NoUser) =>
           /\ lastOp'.index \in prefSubs'
           /\ lastOp'.index \in snapPending'
      /\ (lastOp'.name = "snapshot" /\ lastOp'.outcome = "delivered") =>
           LET p == StreamUpdate(remoteDoc[lastOp'.index])
           IN /\ lastOp'.index \in prefSubs
              /\ currentPreferences' = Spread(getDefaultPreferences, p)
              /\ \A k \in DOMAIN getDefaultPreferences :
                   applied'[k] = currentPreferences'[k] ]_vars

\* C25 witness: the stream has delivered another device's dark theme, and it is
\* the current and the applied theme
C25_Witness ==
  /\ lastOp.name = "snapshot"
  /\ lastOp.outcome = "delivered"
  /\ currentPreferences.theme = "dark"
  /\ applied.theme = "dark"
  /\ "volume" \in DOMAIN currentPreferences

\* the sequence pl without its element at the 0-based position i
Without(pl, i) == [k \in 1..(Len(pl) - 1) |-> IF k <= i THEN pl[k] ELSE pl[k + 1]]

\* C26: removeTrack(i) with a valid i leaves the manager's playlist and the
\* player's playlist equal to the previous sequence without element i (length
\* one less, the other tracks in their order); with an invalid i neither
\* playlist changes.
C26_RemoveExactlyOne ==
  [][ lastOp'.name = "removeTrack" =>
        IF HasIndex(MgrPlaylist, lastOp'.index)
        THEN /\ heap'[mgrRef'] = Without(MgrPlaylist, lastOp'.index)
             /\ heap'[playerRef'] = Without(PlayerPlaylist, lastOp'.index)
        ELSE /\ heap'[mgrRef'] = MgrPlaylist
             /\ heap'[playerRef'] = PlayerPlaylist ]_vars

\* C27: when removeTrack(i) is called with a valid i other than
\* currentTrackIndex and the current index designates track T of the player's
\* playlist, the track at currentTrackIndex afterwards is still T.
C27_CurrentTrackKept ==
  [][ (/\ lastOp'.name = "removeTrack"
       /\ HasIndex(MgrPlaylist, lastOp'.index)
       /\ lastOp'.index # currentTrackIndex
       /\ HasIndex(PlayerPlaylist, currentTrackIndex))
      => /\ HasIndex(heap'[playerRef'], currentTrackIndex')
         /\ At(heap'[playerRef'], currentTrackIndex') = At(PlayerPlaylist, currentTrackIndex)
    ]_vars


\* C28: when a track ends while the player is playing, a non-empty playlist
\* gets its next track in circular order loaded and playback requested with
\* isPlaying still true, and an empty playlist leaves the player stopped
\* (isPlaying false).
C28_EndedAdvancesOrStops ==
  [][ (lastOp'.name = "ended" /\ isPlaying) =>
        LET N == Len(PlayerPlaylist)
        IN IF N > 0
           THEN /\ currentTrackIndex' = (currentTrackIndex + 1) % N
                /\ CurrentLoaded'
                /\ isPlaying'
                /\ audioState' = "requested"
           ELSE ~isPlaying'
    ]_vars

\* C29: in every quiescent state (no play request pending), isPlaying is true
\* exactly when the audio element is playing.
C29_IsPlayingMatchesAudio ==
  audioState # "requested" => (isPlaying <=> audioState = "playing")

\* C30: in every state from construction on, the audio element's volume is 0
\* when isMuted is true and equals the player's volume field when isMuted is
\* false.
C30_MuteInvariant ==
  audioVolume = IF isMuted THEN 0 ELSE volume

\* C31: the audio element's source is never a session-local locator that has
\* been revoked: an operation that revokes the locator of the loaded track also
\* clears the source.
C31_SourceNeverRevoked ==
  audioSrc \notin revoked

\* C32: the tracks in the playlist have pairwise distinct identifiers after any
\* sequence of added batches and removals, also for batches added within a few
\* milliseconds of each other.
C32_DistinctIds ==
  \A i, j \in 1..Len(MgrPlaylist) :
     MgrPlaylist[i].id = MgrPlaylist[j].id => i = j

\* C33: the loading indicator is active and the buttons are disabled exactly
\* while a sign-in, sign-up or sign-out request awaits the provider, also when
\* a second request is started before the first has settled.
C33_LoadingWhilePending ==
  loading <=> authCalls # {}

\* C34: at any time at most one remote preference subscription is live and it
\* belongs to the signed-in user, and cleanup cancels every subscription that
\* is still open.
C34_OneLiveSubscription ==
  /\ [](prefSubs \subseteq ({authUser} \ {NoUser}))
  /\ [][lastOp'.name = "cleanup" => prefSubs' = {}]_vars

\* C35: togglePlay with no source loaded in the audio element (nothing added
\* yet, or the current track was just removed) shows 'No track selected',
\* leaves isPlaying, currentTrackIndex and the playlist unchanged and issues no
\* play request; with a source loaded it pauses when isPlaying is true and
\* requests play when isPlaying is false.
C35_TogglePlayNeedsSource ==
  [][ lastOp'.name = "togglePlay" =>
        IF audioSrc \in {EmptySrc, ClearedSrc}
        THEN /\ lastOp'.toast = "No track selected"
             /\ UNCHANGED <<isPlaying, currentTrackIndex, heap, mgrRef, playerRef, audioState>>
        ELSE IF isPlaying
             THEN ~isPlaying' /\ audioState' = "idle"
             ELSE audioState' = "requested"
    ]_vars

====
